---------------------------- MODULE Spec2Model ----------------------------
(***************************************************************************)
(* A model of the federation query planner's public entry points           *)
(* (query-planner/src/lib.rs), of the host shim that keeps one planner in  *)
(* process-wide statics (query-planner-wasm/src/lib.rs) and of the query   *)
(* formatter (graphql-parser/src/query/format.rs).                         *)
(*                                                                         *)
(* Text is modelled as the sequence of its significant GraphQL lexical     *)
(* tokens: white space, line breaks and commas are insignificant to the    *)
(* GraphQL lexer and are left out, so two texts are equal here when they   *)
(* are equal token by token.                                               *)
(***************************************************************************)
EXTENDS Integers, Sequences, FiniteSets, TLC

(***************************************************************************)
(* Option<T>: None is the empty sequence, Some(x) the one-element sequence.*)
(***************************************************************************)
None == <<>>
Some(x) == <<x>>
IsSome(o) == Len(o) > 0
Unwrap(o) == o[1]

(***************************************************************************)
(* crate::format::Formatter.  The display code only calls these methods;   *)
(* the buffer is the token sequence written so far, so each method is the  *)
(* token sequence it appends.  margin, indent and endline write white      *)
(* space only.                                                             *)
(***************************************************************************)
write(s) ==
    CASE s = " "         -> <<>>
      [] s = ", "        -> <<>>
      [] s = ": "        -> <<":">>
      [] s = " = "       -> <<"=">>
      [] s = " on "      -> <<"on">>
      [] s = "fragment " -> <<"fragment">>
      [] OTHER           -> <<s>>
write_quoted(s) == <<"\"" \o s \o "\"">>
margin == <<>>
indent == <<>>
endline == <<>>
start_block == <<"{">>
end_block == <<"}">>

(***************************************************************************)
(* format.rs: Displayable for Value, Type, Directive, format_arguments     *)
(***************************************************************************)
RECURSIVE display_Value(_), display_Values(_, _), display_ObjectFields(_, _)
display_Value(v) ==
    CASE v.v = "Variable" -> write("$") \o write(v.name)
      [] v.v = "Int"      -> write(ToString(v.num))
      [] v.v = "Float"    -> write(v.repr)
      [] v.v = "String"   -> write_quoted(v.val)
      [] v.v = "Boolean"  -> IF v.b THEN write("true") ELSE write("false")
      [] v.v = "Null"     -> write("null")
      [] v.v = "Enum"     -> write(v.name)
      [] v.v = "List"     ->
            write("[")
            \o (IF Len(v.items) # 0
                THEN display_Value(v.items[1]) \o display_Values(v.items, 2)
                ELSE <<>>)
            \o write("]")
      [] v.v = "Object"   ->
            write("{") \o display_ObjectFields(v.items, 1) \o write("}")

\* for item in &items[1..] { f.write(", "); item.display(f); }
display_Values(items, i) ==
    IF i > Len(items) THEN <<>>
    ELSE write(", ") \o display_Value(items[i]) \o display_Values(items, i + 1)

\* for (name, value) in items.iter() { ... }
display_ObjectFields(items, i) ==
    IF i > Len(items) THEN <<>>
    ELSE (IF i = 1 THEN <<>> ELSE write(", "))
         \o write(items[i][1]) \o write(": ") \o display_Value(items[i][2])
         \o display_ObjectFields(items, i + 1)

RECURSIVE display_Type(_)
display_Type(t) ==
    CASE t.t = "NamedType"   -> write(t.name)
      [] t.t = "ListType"    -> write("[") \o display_Type(t.of) \o write("]")
      [] t.t = "NonNullType" -> display_Type(t.of) \o write("!")

RECURSIVE format_arguments_rest(_, _)
format_arguments_rest(arguments, i) ==
    IF i > Len(arguments) THEN <<>>
    ELSE write(", ") \o write(arguments[i][1]) \o write(": ")
         \o display_Value(arguments[i][2])
         \o format_arguments_rest(arguments, i + 1)

format_arguments(arguments) ==
    IF Len(arguments) # 0
    THEN write("(") \o write(arguments[1][1]) \o write(": ")
         \o display_Value(arguments[1][2])
         \o format_arguments_rest(arguments, 2)
         \o write(")")
    ELSE <<>>

display_Directive(d) ==
    write("@") \o write(d.name) \o format_arguments(d.arguments)

\* crate::format::format_directives: each directive after a space
RECURSIVE format_directives(_)
format_directives(dirs) ==
    IF Len(dirs) = 0 THEN <<>>
    ELSE write(" ") \o display_Directive(Head(dirs)) \o format_directives(Tail(dirs))

display_VariableDefinition(vd) ==
    write("$") \o write(vd.name) \o write(": ") \o display_Type(vd.var_type)
    \o (IF IsSome(vd.default_value)
        THEN write(" = ") \o display_Value(Unwrap(vd.default_value))
        ELSE <<>>)

(***************************************************************************)
(* format.rs: Displayable for the selections of the parsed AST             *)
(* (Selection, Field, InlineFragment, FragmentSpread, SelectionSet).       *)
(***************************************************************************)
RECURSIVE display_Selection(_), display_items(_), display_Field(_)
RECURSIVE display_InlineFragment(_)

\* for item in &self.items { item.display(f); }
display_items(items) ==
    IF Len(items) = 0 THEN <<>>
    ELSE display_Selection(Head(items)) \o display_items(Tail(items))

\* field_impl!(self, f) for Field
display_Field(self) ==
    indent
    \o (IF IsSome(self.alias)
        THEN write(Unwrap(self.alias)) \o write(": ")
        ELSE <<>>)
    \o write(self.name)
    \o format_arguments(self.arguments)
    \o format_directives(self.directives)
    \o (IF Len(self.selection_set.items) # 0
        THEN write(" ") \o start_block
             \o display_items(self.selection_set.items)
             \o end_block
        ELSE endline)

\* inline_fragment_impl!(self, f) for InlineFragment
display_InlineFragment(self) ==
    indent \o write("...")
    \o (IF IsSome(self.type_condition)
        THEN write(" on ") \o write(Unwrap(self.type_condition))
        ELSE <<>>)
    \o format_directives(self.directives)
    \o write(" ") \o start_block
    \o display_items(self.selection_set.items)
    \o end_block

display_FragmentSpread(self) ==
    indent \o write("...") \o write(self.fragment_name)
    \o format_directives(self.directives) \o endline

display_Selection(self) ==
    CASE self.kind = "Field"          -> display_Field(self)
      [] self.kind = "InlineFragment" -> display_InlineFragment(self)
      [] self.kind = "FragmentSpread" -> display_FragmentSpread(self)

display_SelectionSet(self) ==
    margin \o indent \o start_block \o display_items(self.items) \o end_block

(***************************************************************************)
(* format.rs: Displayable for the reference layer (SelectionRef,           *)
(* SelectionSetRef, FieldRef, InlineFragmentRef, FragmentSpreadRef).       *)
(***************************************************************************)
RECURSIVE display_SelectionRef(_), display_ref_items(_), display_FieldRef(_)
RECURSIVE display_InlineFragmentRef(_)

display_ref_items(items) ==
    IF Len(items) = 0 THEN <<>>
    ELSE display_SelectionRef(Head(items)) \o display_ref_items(Tail(items))

\* A plausible slip in the FieldRef copy of the field code: the alias is dropped.
display_FieldRef_noalias(self) ==
    indent
    \o write(self.name)
    \o format_arguments(self.arguments)
    \o format_directives(self.directives)
    \o (IF Len(self.selection_set.items) # 0
        THEN write(" ") \o start_block
             \o display_ref_items(self.selection_set.items)
             \o end_block
        ELSE endline)

\* field_impl!(self, f) for FieldRef
display_FieldRef(self) ==
    indent
    \o (IF IsSome(self.alias)
        THEN write(Unwrap(self.alias)) \o write(": ")
        ELSE <<>>)
    \o write(self.name)
    \o format_arguments(self.arguments)
    \o format_directives(self.directives)
    \o (IF Len(self.selection_set.items) # 0
        THEN write(" ") \o start_block
             \o display_ref_items(self.selection_set.items)
             \o end_block
        ELSE endline)

\* inline_fragment_impl!(self, f) for InlineFragmentRef
display_InlineFragmentRef(self) ==
    indent \o write("...")
    \o (IF IsSome(self.type_condition)
        THEN write(" on ") \o write(Unwrap(self.type_condition))
        ELSE <<>>)
    \o format_directives(self.directives)
    \o write(" ") \o start_block
    \o display_ref_items(self.selection_set.items)
    \o end_block

\* FragmentSpreadRef writes its name only
display_FragmentSpreadRef(self) ==
    indent \o write("...") \o write(self.name) \o endline

display_SelectionRef(self) ==
    CASE self.kind = "Ref"               -> display_Selection(self.r)
      [] self.kind = "Field"             -> display_Field(self)
      [] self.kind = "FieldRef"          -> display_FieldRef(self)
      [] self.kind = "InlineFragmentRef" -> display_InlineFragmentRef(self)
      [] self.kind = "FragmentSpreadRef" -> display_FragmentSpreadRef(self)

display_SelectionSetRef(self) ==
    margin \o indent \o start_block \o display_ref_items(self.items) \o end_block

(***************************************************************************)
(* format.rs: Displayable for OperationDefinition, FragmentDefinition,     *)
(* Definition, Document and Document::format.                              *)
(***************************************************************************)
RECURSIVE display_VariableDefinitions_rest(_, _)
display_VariableDefinitions_rest(vds, i) ==
    IF i > Len(vds) THEN <<>>
    ELSE write(", ") \o display_VariableDefinition(vds[i])
         \o display_VariableDefinitions_rest(vds, i + 1)

\* The variable definitions are written inside the `if let Some(ref name)` block.
display_OperationDefinition(self) ==
    margin \o indent \o write(self.kind)
    \o (IF IsSome(self.name)
        THEN write(" ") \o write(Unwrap(self.name))
             \o (IF Len(self.variable_definitions) # 0
                 THEN write("(")
                      \o display_VariableDefinition(self.variable_definitions[1])
                      \o display_VariableDefinitions_rest(self.variable_definitions, 2)
                      \o write(")")
                 ELSE <<>>)
        ELSE <<>>)
    \o format_directives(self.directives)
    \o write(" ") \o start_block
    \o display_items(self.selection_set.items)
    \o end_block

display_FragmentDefinition(self) ==
    margin \o indent \o write("fragment ") \o write(self.name)
    \o write(" on ") \o write(self.type_condition)
    \o format_directives(self.directives)
    \o write(" ") \o start_block
    \o display_items(self.selection_set.items)
    \o end_block

display_Definition(self) ==
    CASE self.def = "SelectionSet" -> display_SelectionSet(self.s)
      [] self.def = "Operation"    -> display_OperationDefinition(self.op)
      [] self.def = "Fragment"     -> display_FragmentDefinition(self.frag)

RECURSIVE display_Document(_)
display_Document(definitions) ==
    IF Len(definitions) = 0 THEN <<>>
    ELSE display_Definition(Head(definitions)) \o display_Document(Tail(definitions))

\* Document::format(style)
format(doc) == display_Document(doc.definitions)

(***************************************************************************)
(* graphql_parser::parse_query, the library the planner calls: a recursive *)
(* descent over the token sequence following the GraphQL query grammar.    *)
(* A parse step returns [ok, val, rest].                                   *)
(***************************************************************************)
MaxInt == 2
IntToks == {ToString(n) : n \in 0..MaxInt}
IntOf(tok) == CHOOSE n \in 0..MaxInt : ToString(n) = tok
StringToks == {"\"s\""}
StringOf(tok) == "s"
Punct == {"!", "$", "(", ")", "...", ":", "=", "@", "[", "]", "{", "}"}
Eof == "<eof>"
OperationKinds == {"query", "mutation", "subscription"}

Peek(ts) == IF Len(ts) = 0 THEN Eof ELSE ts[1]
Rest(ts) == IF Len(ts) = 0 THEN <<>> ELSE Tail(ts)
IsName(t) == t \notin Punct \cup IntToks \cup StringToks \cup {Eof}

Fail == [ok |-> FALSE, val |-> <<>>, rest |-> <<>>]
Ok(v, r) == [ok |-> TRUE, val |-> v, rest |-> r]

RECURSIVE P(_, _, _, _)
ParseValue(ts) ==
    LET h == Peek(ts)
        r == Rest(ts)
    IN  CASE h = "$" ->
               IF IsName(Peek(r))
               THEN Ok([v |-> "Variable", name |-> Peek(r)], Rest(r))
               ELSE Fail
          [] h = "[" -> P("ValueList", r, <<>>, <<>>)
          [] h = "{" -> P("ObjectFields", r, <<>>, <<>>)
          [] h = "true"  -> Ok([v |-> "Boolean", b |-> TRUE], r)
          [] h = "false" -> Ok([v |-> "Boolean", b |-> FALSE], r)
          [] h = "null"  -> Ok([v |-> "Null"], r)
          [] h \in IntToks -> Ok([v |-> "Int", num |-> IntOf(h)], r)
          [] h \in StringToks -> Ok([v |-> "String", val |-> StringOf(h)], r)
          [] OTHER -> IF IsName(h) THEN Ok([v |-> "Enum", name |-> h], r) ELSE Fail

ParseValueList(ts, acc) ==
    IF Peek(ts) = "]" THEN Ok([v |-> "List", items |-> acc], Rest(ts))
    ELSE LET one == P("Value", ts, <<>>, <<>>)
         IN  IF one.ok THEN P("ValueList", one.rest, Append(acc, one.val), <<>>) ELSE Fail

ParseObjectFields(ts, acc) ==
    IF Peek(ts) = "}" THEN Ok([v |-> "Object", items |-> acc], Rest(ts))
    ELSE IF IsName(Peek(ts)) /\ Peek(Rest(ts)) = ":"
         THEN LET one == P("Value", Rest(Rest(ts)), <<>>, <<>>)
              IN  IF one.ok
                  THEN P("ObjectFields", one.rest, Append(acc, <<Peek(ts), one.val>>), <<>>)
                  ELSE Fail
         ELSE Fail

ParseType(ts) ==
    LET h == Peek(ts)
        base ==
            IF h = "["
            THEN LET inner == P("Type", Rest(ts), <<>>, <<>>)
                 IN  IF inner.ok /\ Peek(inner.rest) = "]"
                     THEN Ok([t |-> "ListType", of |-> inner.val], Rest(inner.rest))
                     ELSE Fail
            ELSE IF IsName(h)
                 THEN Ok([t |-> "NamedType", name |-> h], Rest(ts))
                 ELSE Fail
    IN  IF base.ok /\ Peek(base.rest) = "!"
        THEN Ok([t |-> "NonNullType", of |-> base.val], Rest(base.rest))
        ELSE base

ParseArgumentList(ts, acc) ==
    IF Peek(ts) = ")"
    THEN (IF Len(acc) = 0 THEN Fail ELSE Ok(acc, Rest(ts)))
    ELSE IF IsName(Peek(ts)) /\ Peek(Rest(ts)) = ":"
         THEN LET one == P("Value", Rest(Rest(ts)), <<>>, <<>>)
              IN  IF one.ok
                  THEN P("ArgumentList", one.rest, Append(acc, <<Peek(ts), one.val>>), <<>>)
                  ELSE Fail
         ELSE Fail

ParseArguments(ts) ==
    IF Peek(ts) = "(" THEN P("ArgumentList", Rest(ts), <<>>, <<>>) ELSE Ok(<<>>, ts)

ParseDirectives(ts, acc) ==
    IF Peek(ts) = "@"
    THEN IF IsName(Peek(Rest(ts)))
         THEN LET args == P("Arguments", Rest(Rest(ts)), <<>>, <<>>)
              IN  IF args.ok
                  THEN P("Directives", args.rest,
                           Append(acc, [name |-> Peek(Rest(ts)), arguments |-> args.val]), <<>>)
                  ELSE Fail
         ELSE Fail
    ELSE Ok(acc, ts)

ParseVariableDefinitionList(ts, acc) ==
    IF Peek(ts) = ")"
    THEN (IF Len(acc) = 0 THEN Fail ELSE Ok(acc, Rest(ts)))
    ELSE IF Peek(ts) = "$" /\ IsName(Peek(Rest(ts))) /\ Peek(Rest(Rest(ts))) = ":"
         THEN LET name == Peek(Rest(ts))
                  ty == P("Type", Rest(Rest(Rest(ts))), <<>>, <<>>)
              IN  IF ~ty.ok THEN Fail
                  ELSE IF Peek(ty.rest) = "="
                       THEN LET dv == P("Value", Rest(ty.rest), <<>>, <<>>)
                            IN  IF dv.ok
                                THEN P("VariableDefinitionList", dv.rest,
                                         Append(acc, [name |-> name, var_type |-> ty.val,
                                                      default_value |-> Some(dv.val)]), <<>>)
                                ELSE Fail
                       ELSE P("VariableDefinitionList", ty.rest,
                                Append(acc, [name |-> name, var_type |-> ty.val,
                                             default_value |-> None]), <<>>)
         ELSE Fail

ParseVariableDefinitions(ts) ==
    IF Peek(ts) = "(" THEN P("VariableDefinitionList", Rest(ts), <<>>, <<>>) ELSE Ok(<<>>, ts)

ParseSelectionSet(ts) ==
    IF Peek(ts) = "{" THEN P("Selections", Rest(ts), <<>>, <<>>) ELSE Fail

ParseSelections(ts, acc) ==
    IF Peek(ts) = "}"
    THEN (IF Len(acc) = 0 THEN Fail ELSE Ok([items |-> acc], Rest(ts)))
    ELSE LET one == P("Selection", ts, <<>>, <<>>)
         IN  IF one.ok THEN P("Selections", one.rest, Append(acc, one.val), <<>>) ELSE Fail

\* the part of a field after its alias and name
ParseFieldTail(alias, name, ts) ==
    LET args == P("Arguments", ts, <<>>, <<>>)
        dirs == P("Directives", args.rest, <<>>, <<>>)
        sub  == P("SelectionSet", dirs.rest, <<>>, <<>>)
    IN  IF ~args.ok THEN Fail
        ELSE IF ~dirs.ok THEN Fail
        ELSE IF Peek(dirs.rest) = "{"
             THEN IF sub.ok
                  THEN Ok([kind |-> "Field", alias |-> alias, name |-> name,
                           arguments |-> args.val, directives |-> dirs.val,
                           selection_set |-> sub.val], sub.rest)
                  ELSE Fail
             ELSE Ok([kind |-> "Field", alias |-> alias, name |-> name,
                      arguments |-> args.val, directives |-> dirs.val,
                      selection_set |-> [items |-> <<>>]], dirs.rest)

ParseSelection(ts) ==
    LET h == Peek(ts)
        r == Rest(ts)
    IN  IF h = "..."
        THEN IF Peek(r) = "on"
             THEN LET dirs == P("Directives", Rest(Rest(r)), <<>>, <<>>)
                      sub  == P("SelectionSet", dirs.rest, <<>>, <<>>)
                  IN  IF IsName(Peek(Rest(r))) /\ dirs.ok /\ sub.ok
                      THEN Ok([kind |-> "InlineFragment",
                               type_condition |-> Some(Peek(Rest(r))),
                               directives |-> dirs.val, selection_set |-> sub.val],
                              sub.rest)
                      ELSE Fail
             ELSE IF IsName(Peek(r))
                  THEN LET dirs == P("Directives", Rest(r), <<>>, <<>>)
                       IN  IF dirs.ok
                           THEN Ok([kind |-> "FragmentSpread", fragment_name |-> Peek(r),
                                    directives |-> dirs.val], dirs.rest)
                           ELSE Fail
                  ELSE LET dirs == P("Directives", r, <<>>, <<>>)
                           sub  == P("SelectionSet", dirs.rest, <<>>, <<>>)
                       IN  IF dirs.ok /\ sub.ok
                           THEN Ok([kind |-> "InlineFragment", type_condition |-> None,
                                    directives |-> dirs.val, selection_set |-> sub.val],
                                   sub.rest)
                           ELSE Fail
        ELSE IF IsName(h)
             THEN IF Peek(r) = ":"
                  THEN IF IsName(Peek(Rest(r)))
                       THEN P("FieldTail", Rest(Rest(r)), Some(h), Peek(Rest(r)))
                       ELSE Fail
                  ELSE P("FieldTail", r, None, h)
             ELSE Fail

ParseOperationDefinition(ts) ==
    LET kind == Peek(ts)
        named == IsName(Peek(Rest(ts)))
        afterName == IF named THEN Rest(Rest(ts)) ELSE Rest(ts)
        vars == P("VariableDefinitions", afterName, <<>>, <<>>)
        dirs == P("Directives", vars.rest, <<>>, <<>>)
        sub  == P("SelectionSet", dirs.rest, <<>>, <<>>)
    IN  IF vars.ok /\ dirs.ok /\ sub.ok
        THEN Ok([def |-> "Operation",
                 op |-> [kind |-> kind,
                         name |-> IF named THEN Some(Peek(Rest(ts))) ELSE None,
                         variable_definitions |-> vars.val,
                         directives |-> dirs.val,
                         selection_set |-> sub.val]], sub.rest)
        ELSE Fail

ParseFragmentDefinition(ts) ==
    LET name == Peek(Rest(ts))
        cond == Peek(Rest(Rest(Rest(ts))))
        dirs == P("Directives", Rest(Rest(Rest(Rest(ts)))), <<>>, <<>>)
        sub  == P("SelectionSet", dirs.rest, <<>>, <<>>)
    IN  IF IsName(name) /\ name # "on" /\ Peek(Rest(Rest(ts))) = "on" /\ IsName(cond)
           /\ dirs.ok /\ sub.ok
        THEN Ok([def |-> "Fragment",
                 frag |-> [name |-> name, type_condition |-> cond,
                           directives |-> dirs.val, selection_set |-> sub.val]],
                sub.rest)
        ELSE Fail

ParseDefinition(ts) ==
    LET h == Peek(ts)
    IN  CASE h = "{" ->
               LET sub == P("SelectionSet", ts, <<>>, <<>>)
               IN  IF sub.ok THEN Ok([def |-> "SelectionSet", s |-> sub.val], sub.rest)
                   ELSE Fail
          [] h \in OperationKinds -> P("OperationDefinition", ts, <<>>, <<>>)
          [] h = "fragment" -> P("FragmentDefinition", ts, <<>>, <<>>)
          [] OTHER -> Fail

ParseDocument(ts, acc) ==
    IF Len(ts) = 0
    THEN (IF Len(acc) = 0 THEN Fail ELSE Ok([definitions |-> acc], <<>>))
    ELSE LET one == P("Definition", ts, <<>>, <<>>)
         IN  IF one.ok THEN P("Document", one.rest, Append(acc, one.val), <<>>) ELSE Fail

\* P(nt, ts, x, y): the parse step for nonterminal nt on the tokens ts, with what
\* the step is handed (an accumulator, or an alias and a name)
P(nt, ts, x, y) ==
    CASE nt = "Value" -> ParseValue(ts)
      [] nt = "ValueList" -> ParseValueList(ts, x)
      [] nt = "ObjectFields" -> ParseObjectFields(ts, x)
      [] nt = "Type" -> ParseType(ts)
      [] nt = "ArgumentList" -> ParseArgumentList(ts, x)
      [] nt = "Arguments" -> ParseArguments(ts)
      [] nt = "Directives" -> ParseDirectives(ts, x)
      [] nt = "VariableDefinitionList" -> ParseVariableDefinitionList(ts, x)
      [] nt = "VariableDefinitions" -> ParseVariableDefinitions(ts)
      [] nt = "SelectionSet" -> ParseSelectionSet(ts)
      [] nt = "Selections" -> ParseSelections(ts, x)
      [] nt = "FieldTail" -> ParseFieldTail(x, y, ts)
      [] nt = "Selection" -> ParseSelection(ts)
      [] nt = "OperationDefinition" -> ParseOperationDefinition(ts)
      [] nt = "FragmentDefinition" -> ParseFragmentDefinition(ts)
      [] nt = "Definition" -> ParseDefinition(ts)
      [] nt = "Document" -> ParseDocument(ts, x)

\* Result<Document, ParseError>
parse_query(text) ==
    LET r == P("Document", text, <<>>, <<>>)
    IN  IF r.ok THEN [ok |-> TRUE, doc |-> r.val]
        ELSE [ok |-> FALSE, err |-> "ParseError"]

(***************************************************************************)
(* The inputs: schema texts and query texts a caller can pass.             *)
(***************************************************************************)
SchemaBasic == "basic/csdl.graphql"
SchemaAlt   == "alt/csdl.graphql"
SchemaBad   == "type Query {"
SchemaTexts == {SchemaBasic, SchemaAlt, SchemaBad}

\* query { me { name } }
QueryMe == <<"query", "{", "me", "{", "name", "}", "}">>
\* query { me { name } topProducts { upc } }
QueryTwoRoots ==
    <<"query", "{", "me", "{", "name", "}", "topProducts", "{", "upc", "}", "}">>
\* query Q($a: Int) { me(id: $a) { name } }
QueryWithVariable ==
    <<"query", "Q", "(", "$", "a", ":", "Int", ")", "{",
      "me", "(", "id", ":", "$", "a", ")", "{", "name", "}", "}">>
\* mutation { a: doX b: doY }
MutationTwo == <<"mutation", "{", "a", ":", "doX", "b", ":", "doY", "}">>
\* mutation { doX }
MutationOne == <<"mutation", "{", "doX", "}">>
\* mutation { a: doX b: doY c: doX }
MutationThree ==
    <<"mutation", "{", "a", ":", "doX", "b", ":", "doY", "c", ":", "doX", "}">>
\* query { nosuch }
QueryUnknownField == <<"query", "{", "nosuch", "}">>
\* query { me { name }      (the closing brace is missing)
QueryUnbalanced == <<"query", "{", "me", "{", "name", "}">>
QueryTexts ==
    {QueryMe, QueryTwoRoots, QueryWithVariable, MutationTwo, MutationOne,
     MutationThree, QueryUnknownField, QueryUnbalanced}

\* QueryPlanningOptions { auto_fragmentization }
OptionsSet == {[auto_fragmentization |-> b] : b \in BOOLEAN}

(***************************************************************************)
(* graphql_parser::parse_schema and the schema document, reduced to what   *)
(* the planner reads from it: the service owning each root field.          *)
(***************************************************************************)
parse_schema(text) ==
    CASE text = SchemaBasic ->
           [ok |-> TRUE,
            doc |-> [source |-> text,
                     owner |-> [me |-> "accounts", topProducts |-> "product",
                                doX |-> "accounts", doY |-> "reviews"]]]
      [] text = SchemaAlt ->
           [ok |-> TRUE,
            doc |-> [source |-> text,
                     owner |-> [me |-> "users", topProducts |-> "product",
                                doX |-> "users", doY |-> "reviews"]]]
      [] OTHER -> [ok |-> FALSE, err |-> "ParseError"]

(***************************************************************************)
(* builder::build_query_plan, for operations whose groups are decided by   *)
(* the owners of the root fields.                                          *)
(***************************************************************************)
PlanOk(plan) == [outcome |-> "Ok", plan |-> plan]
PlanErr(kind, reason) == [outcome |-> "Err", err |-> [kind |-> kind, reason |-> reason]]
Panic(msg) == [outcome |-> "panic", msg |-> msg]

RECURSIVE VarsOfValue(_), VarsOfValues(_), VarsOfArguments(_), VarsOfDirectives(_)
RECURSIVE VarsOfItems(_)
VarsOfValue(v) ==
    CASE v.v = "Variable" -> {v.name}
      [] v.v = "List"     -> VarsOfValues(v.items)
      [] v.v = "Object"   -> VarsOfArguments(v.items)
      [] OTHER            -> {}
VarsOfValues(vs) ==
    IF Len(vs) = 0 THEN {} ELSE VarsOfValue(Head(vs)) \cup VarsOfValues(Tail(vs))
VarsOfArguments(args) ==
    IF Len(args) = 0 THEN {}
    ELSE VarsOfValue(Head(args)[2]) \cup VarsOfArguments(Tail(args))
VarsOfDirectives(dirs) ==
    IF Len(dirs) = 0 THEN {}
    ELSE VarsOfArguments(Head(dirs).arguments) \cup VarsOfDirectives(Tail(dirs))
VarsOfItems(items) ==
    IF Len(items) = 0 THEN {}
    ELSE LET it == Head(items)
         IN  VarsOfDirectives(it.directives)
             \cup (IF it.kind = "Field" THEN VarsOfArguments(it.arguments) ELSE {})
             \cup (IF it.kind = "FragmentSpread" THEN {}
                   ELSE VarsOfItems(it.selection_set.items))
             \cup VarsOfItems(Tail(items))

\* the operation a document asks for: its first operation or bare selection set
RootOperation(doc) ==
    LET IsOp(d) == d.def \in {"Operation", "SelectionSet"}
        ops == SelectSeq(doc.definitions, IsOp)
    IN  IF Len(ops) = 0 THEN None
        ELSE IF ops[1].def = "Operation" THEN Some(ops[1].op)
        ELSE Some([kind |-> "query", name |-> None, variable_definitions |-> <<>>,
                   directives |-> <<>>, selection_set |-> ops[1].s])

AsRefs(items) == [i \in 1..Len(items) |-> [kind |-> "Ref", r |-> items[i]]]

\* the text of a subgraph operation: an anonymous query or mutation over the
\* group's selections, declaring the variables the group uses
operation_text(kind, vardefs, items) ==
    (IF kind = "query" /\ Len(vardefs) = 0 THEN <<>> ELSE write(kind))
    \o (IF Len(vardefs) # 0
        THEN write("(") \o display_VariableDefinition(vardefs[1])
             \o display_VariableDefinitions_rest(vardefs, 2) \o write(")")
        ELSE <<>>)
    \o display_SelectionSetRef([items |-> AsRefs(items)])

FetchNode(service, op, items) ==
    LET Used(vd) == vd.name \in VarsOfItems(items)
        vardefs == SelectSeq(op.variable_definitions, Used)
    IN  [kind |-> "Fetch",
         service_name |-> service,
         requires |-> None,
         variable_usages |-> [i \in 1..Len(vardefs) |-> vardefs[i].name],
         operation |-> operation_text(op.kind, vardefs, items)]

\* the owning services of the root fields, in order of first appearance
RECURSIVE ServicesInOrder(_, _, _)
ServicesInOrder(schema, items, acc) ==
    IF Len(items) = 0 THEN acc
    ELSE LET s == schema.owner[Head(items).name]
             Seen(x) == x = s
         IN  ServicesInOrder(schema, Tail(items),
                 IF Len(SelectSeq(acc, Seen)) # 0 THEN acc ELSE Append(acc, s))

\* single-child Parallel and Sequence nodes are collapsed to the child
flat_wrap(kind, nodes) ==
    IF Len(nodes) = 0 THEN None
    ELSE IF Len(nodes) = 1 THEN Some(nodes[1])
    ELSE Some([kind |-> kind, nodes |-> nodes])

\* query roots: one fetch per owning service, independent fetches in Parallel
QueryRootNode(schema, op) ==
    LET items == op.selection_set.items
        services == ServicesInOrder(schema, items, <<>>)
        Group(s) == LET Mine(it) == schema.owner[it.name] = s
                    IN  SelectSeq(items, Mine)
    IN  flat_wrap("Parallel",
            [i \in 1..Len(services) |->
                FetchNode(services[i], op, Group(services[i]))])

\* A plausible slip: mutation roots take the path of query roots.
MutationRootNode_as_query(schema, op) == QueryRootNode(schema, op)

\* mutation roots: always a Sequence, one sub-plan per root field, source order
MutationRootNode(schema, op) ==
    LET items == op.selection_set.items
    IN  Some([kind |-> "Sequence",
              nodes |-> [i \in 1..Len(items) |->
                            FetchNode(schema.owner[items[i].name], op, <<items[i]>>)]])

build_query_plan(schema, query, options) ==
    LET root == RootOperation(query)
        op == Unwrap(root)
        items == op.selection_set.items
        Resolvable(it) == it.kind = "Field" /\ it.name \in DOMAIN schema.owner
    IN  IF ~IsSome(root) THEN PlanErr("InvalidQuery", "no operation")
        ELSE IF Len(SelectSeq(items, Resolvable)) # Len(items)
             THEN PlanErr("InvalidQuery", "field not resolvable")
        ELSE IF op.kind = "mutation"
             THEN PlanOk([node |-> MutationRootNode(schema, op)])
        ELSE PlanOk([node |-> QueryRootNode(schema, op)])

(***************************************************************************)
(* query-planner/src/lib.rs: QueryPlanner::new and QueryPlanner::plan.     *)
(* expect() on a parse error panics.                                       *)
(***************************************************************************)
\* QueryPlanner::new(schema)
new(schema) ==
    LET parsed == parse_schema(schema)
    IN  IF ~parsed.ok THEN Panic("failed parsing schema")
        ELSE [outcome |-> "planner", planner |-> [schema |-> parsed.doc]]

\* QueryPlanner::plan(&self, query, options)
plan(self, query, options) ==
    LET parsed == parse_query(query)
    IN  IF ~parsed.ok THEN Panic("failed parsing query")
        ELSE build_query_plan(self.schema, parsed.doc, options)

(***************************************************************************)
(* State.                                                                  *)
(*   A native caller of the library: the planner it holds, the text it was *)
(*   built from, its last call (res), an earlier plan call on the same     *)
(*   planner (kept) and the last Fetch.operation parsed and formatted      *)
(*   again (reformatted).                                                  *)
(*   The host shim: the statics SCHEMA and DATA, the address of DATA's     *)
(*   buffer (dataPtr, 0 before the first push), the handles returned so    *)
(*   far, the number of calls made and the last call (ret).                *)
(*   Concurrent callers of one planner: the shared planner, and each       *)
(*   thread's position, locals and result.                                 *)
(*   The formatter applied to a selection and to its reference variant.    *)
(***************************************************************************)
VARIABLES planner, built, res, kept, reformatted,
          SCHEMA, DATA, dataPtr, handles, calls, ret,
          shared, pc, local, result,
          sel, selRef, astText, refText

libVars == <<planner, built, res, kept, reformatted>>
shimVars == <<SCHEMA, DATA, dataPtr, handles, calls, ret>>
concVars == <<shared, pc, local, result>>
fmtVars == <<sel, selRef, astText, refText>>
vars == <<libVars, shimVars, concVars, fmtVars>>

MaxPlanCalls == 3
MaxCalls == 4
NThreads == 2
Threads == 1..NThreads

NoOptions == [auto_fragmentization |-> FALSE]
NoCall ==
    [op |-> "none", schema |-> "", query |-> <<>>, options |-> NoOptions,
     seq |-> 0, result |-> [outcome |-> "none"]]
NotReformatted == [operation |-> <<>>, parsed |-> TRUE, text |-> <<>>]

LibIdle ==
    /\ planner = None
    /\ built = ""
    /\ res = NoCall
    /\ kept = NoCall
    /\ reformatted = NotReformatted

(***************************************************************************)
(* A native caller: QueryPlanner::new(&schema), then planner.plan(query,   *)
(* options) any number of times, as in test_all_feature_files.             *)
(***************************************************************************)
New(text) ==
    LET r == new(text)
    IN  /\ res' = [op |-> "new", schema |-> text, query |-> <<>>,
                   options |-> NoOptions, seq |-> 0, result |-> r]
        /\ IF r.outcome = "planner"
           THEN /\ planner' = Some(r.planner)
                /\ built' = text
                /\ kept' = NoCall
           ELSE UNCHANGED <<planner, built, kept>>
        /\ reformatted' = NotReformatted
        /\ UNCHANGED <<shimVars, concVars, fmtVars>>

\* A plausible slip: plan keeps its last result in the planner and serves it again.
Plan_cached(query, options) ==
    /\ IsSome(planner)
    /\ res.seq < MaxPlanCalls
    /\ LET self == Unwrap(planner)
           r == IF "cache" \in DOMAIN self THEN self.cache
                ELSE plan(self, query, options)
       IN  /\ res' = [op |-> "plan", schema |-> built, query |-> query,
                      options |-> options,
                      seq |-> (IF res.op = "plan" THEN res.seq ELSE 0) + 1,
                      result |-> r]
           /\ planner' = Some([schema |-> self.schema, cache |-> r])
    /\ kept' \in {kept, res'}
    /\ reformatted' = NotReformatted
    /\ UNCHANGED <<built, shimVars, concVars, fmtVars>>

Plan(query, options) ==
    /\ IsSome(planner)
    /\ res.seq < MaxPlanCalls
    /\ res' = [op |-> "plan", schema |-> built, query |-> query,
               options |-> options,
               seq |-> (IF res.op = "plan" THEN res.seq ELSE 0) + 1,
               result |-> plan(Unwrap(planner), query, options)]
    /\ kept' \in {kept, res'}
    /\ reformatted' = NotReformatted
    /\ UNCHANGED <<planner, built, shimVars, concVars, fmtVars>>

\* the Fetch nodes of a plan
FetchesOf(p) ==
    IF ~IsSome(p.node) THEN {}
    ELSE LET n == Unwrap(p.node)
         IN  IF n.kind = "Fetch" THEN {n}
             ELSE {n.nodes[i] : i \in 1..Len(n.nodes)}

\* parse_query on a Fetch.operation of the last plan, then Document::format
Reformat ==
    /\ res.op = "plan"
    /\ res.result.outcome = "Ok"
    /\ \E f \in FetchesOf(res.result.plan) :
          LET parsed == parse_query(f.operation)
          IN  reformatted' =
                  [operation |-> f.operation, parsed |-> parsed.ok,
                   text |-> IF parsed.ok THEN format(parsed.doc) ELSE <<>>]
    /\ UNCHANGED <<planner, built, res, kept, shimVars, concVars, fmtVars>>

(***************************************************************************)
(* query-planner-wasm/src/lib.rs: the host shim.                           *)
(*   static mut SCHEMA: Vec<String>;  static mut DATA: Vec<QueryPlanner>   *)
(* A planner in DATA borrows the text of SCHEMA[0] it was built from; once *)
(* that String is replaced the borrow dangles.  A panic leaves the statics *)
(* as they were when it was raised, and the host can call again.           *)
(***************************************************************************)
NAddrs == 2
Addrs == 1..NAddrs

ShimNoCall ==
    [op |-> "none", schema |-> "", query |-> <<>>, handle |-> 0,
     outcome |-> "none", value |-> [node |-> None], run |-> 0,
     schemaBefore |-> <<>>, dataBefore |-> <<>>]

ShimIdle ==
    /\ SCHEMA = <<>>
    /\ DATA = <<>>
    /\ dataPtr = 0
    /\ handles = {}
    /\ calls = 0
    /\ ret = ShimNoCall

\* JsValue::from_serde(&plan): the plan as the JSON object of the wire format
RECURSIVE node_to_json(_)
node_to_json(n) ==
    IF n.kind = "Fetch"
    THEN [kind |-> "Fetch", serviceName |-> n.service_name,
          variableUsages |-> n.variable_usages, operation |-> n.operation]
    ELSE [kind |-> n.kind, nodes |-> [i \in 1..Len(n.nodes) |-> node_to_json(n.nodes[i])]]

JsValue_from_serde(p) ==
    IF IsSome(p.node) THEN [node |-> Some(node_to_json(Unwrap(p.node)))]
    ELSE [node |-> None]

\* the planner built by QueryPlanner::new(&SCHEMA[0]), as DATA holds it
Stored(p) == [schema |-> p.schema, dangling |-> FALSE]
Dangle(data) == [i \in 1..Len(data) |-> [data[i] EXCEPT !.dangling = TRUE]]

get_query_planner(schema) ==
    /\ calls < MaxCalls
    /\ calls' = calls + 1
    /\ LET r == new(schema)
           made(outcome, h) ==
               [op |-> "getQueryPlanner", schema |-> schema, query |-> <<>>,
                handle |-> h, outcome |-> outcome, value |-> [node |-> None],
                run |-> 0, schemaBefore |-> SCHEMA, dataBefore |-> DATA]
       IN  IF Len(SCHEMA) = 0
           THEN /\ SCHEMA' = Append(SCHEMA, schema)
                /\ IF r.outcome = "planner"
                   THEN \E a \in Addrs :
                           /\ DATA' = Append(DATA, Stored(r.planner))
                           /\ dataPtr' = a
                           /\ handles' = handles \cup {a}
                           /\ ret' = made("returned", a)
                   ELSE /\ ret' = made("panic", 0)
                        /\ UNCHANGED <<DATA, dataPtr, handles>>
           ELSE /\ SCHEMA' = [SCHEMA EXCEPT ![1] = schema]
                /\ IF r.outcome = "planner" /\ Len(DATA) > 0
                   THEN /\ DATA' = [DATA EXCEPT ![1] = Stored(r.planner)]
                        /\ handles' = handles \cup {dataPtr}
                        /\ ret' = made("returned", dataPtr)
                        /\ UNCHANGED dataPtr
                   ELSE \* new panicked, or DATA[0] is out of bounds
                        /\ DATA' = Dangle(DATA)
                        /\ ret' = made("panic", 0)
                        /\ UNCHANGED <<dataPtr, handles>>
    /\ UNCHANGED <<libVars, concVars, fmtVars>>

\* what a call through a planner whose schema text was freed can produce
ValidDocs == {parse_schema(t).doc : t \in {x \in SchemaTexts : parse_schema(x).ok}}
DanglingOutcomes(query) ==
    {Panic("crash")} \cup {plan([schema |-> d], query, NoOptions) : d \in ValidDocs}

\* A plausible slip: the call takes the planner over from the pointer and frees it.
get_query_plan_consuming(planner_ptr, query) ==
    /\ calls < MaxCalls
    /\ calls' = calls + 1
    /\ planner_ptr \in handles
    /\ planner_ptr = dataPtr /\ Len(DATA) = 1
    /\ \E r \in (IF DATA[1].dangling THEN DanglingOutcomes(query)
                 ELSE {plan([schema |-> DATA[1].schema], query, NoOptions)}) :
          ret' = [op |-> "getQueryPlan", schema |-> "", query |-> query,
                  handle |-> planner_ptr,
                  outcome |-> IF DATA[1].dangling THEN "ub"
                              ELSE IF r.outcome = "Ok" THEN "returned" ELSE "panic",
                  value |-> IF r.outcome = "Ok" THEN JsValue_from_serde(r.plan)
                            ELSE [node |-> None],
                  run |-> (IF ret.op = "getQueryPlan" THEN ret.run ELSE 0) + 1,
                  schemaBefore |-> SCHEMA, dataBefore |-> DATA]
    /\ DATA' = Dangle(DATA)
    /\ UNCHANGED <<SCHEMA, dataPtr, handles, libVars, concVars, fmtVars>>

\* planner_ptr is a handle getQueryPlanner returned; options are `false`
get_query_plan(planner_ptr, query) ==
    /\ calls < MaxCalls
    /\ calls' = calls + 1
    /\ planner_ptr \in handles
    /\ planner_ptr = dataPtr /\ Len(DATA) = 1
    /\ \E r \in (IF DATA[1].dangling THEN DanglingOutcomes(query)
                 ELSE {plan([schema |-> DATA[1].schema], query, NoOptions)}) :
          ret' = [op |-> "getQueryPlan", schema |-> "", query |-> query,
                  handle |-> planner_ptr,
                  outcome |-> IF DATA[1].dangling THEN "ub"
                              ELSE IF r.outcome = "Ok" THEN "returned" ELSE "panic",
                  value |-> IF r.outcome = "Ok" THEN JsValue_from_serde(r.plan)
                            ELSE [node |-> None],
                  run |-> (IF ret.op = "getQueryPlan" THEN ret.run ELSE 0) + 1,
                  schemaBefore |-> SCHEMA, dataBefore |-> DATA]
    /\ UNCHANGED <<SCHEMA, DATA, dataPtr, handles, libVars, concVars, fmtVars>>

(***************************************************************************)
(* Concurrent plan() calls on one shared planner (`&self`): each thread    *)
(* runs the two statements of QueryPlanner::plan as separate steps, the    *)
(* parsed query being a local of the call.                                 *)
(***************************************************************************)
ConcurrentQueries == {QueryMe, MutationTwo, QueryUnbalanced}
NoLocal == [query |-> <<>>, options |-> NoOptions, doc |-> None]
NoResult == [outcome |-> "none"]

ConcIdle ==
    /\ shared = [schema |-> [source |-> "", owner |-> [me |-> ""]]]
    /\ pc = [t \in Threads |-> "idle"]
    /\ local = [t \in Threads |-> NoLocal]
    /\ result = [t \in Threads |-> NoResult]

\* a thread enters planner.plan(query, options)
Call(t, query, options) ==
    /\ pc[t] = "idle"
    /\ pc' = [pc EXCEPT ![t] = "parse"]
    /\ local' = [local EXCEPT ![t] = [query |-> query, options |-> options, doc |-> None]]
    /\ UNCHANGED <<shared, result, libVars, shimVars, fmtVars>>

\* let query = parse_query(query).expect("failed parsing query");
ParseStep(t) ==
    /\ pc[t] = "parse"
    /\ LET parsed == parse_query(local[t].query)
       IN  IF parsed.ok
           THEN /\ local' = [local EXCEPT ![t].doc = Some(parsed.doc)]
                /\ pc' = [pc EXCEPT ![t] = "build"]
                /\ UNCHANGED result
           ELSE /\ result' = [result EXCEPT ![t] = Panic("failed parsing query")]
                /\ pc' = [pc EXCEPT ![t] = "done"]
                /\ UNCHANGED local
    /\ UNCHANGED <<shared, libVars, shimVars, fmtVars>>

\* A plausible slip: the call marks the root fields it planned in the shared schema.
BuildStep_marking(t) ==
    /\ pc[t] = "build"
    /\ result' = [result EXCEPT ![t] =
           build_query_plan(shared.schema, Unwrap(local[t].doc), local[t].options)]
    /\ pc' = [pc EXCEPT ![t] = "done"]
    /\ shared' = [shared EXCEPT !.schema.owner.me = "planned"]
    /\ UNCHANGED <<local, libVars, shimVars, fmtVars>>

\* build_query_plan(&self.schema, &query, options)
BuildStep(t) ==
    /\ pc[t] = "build"
    /\ result' = [result EXCEPT ![t] =
           build_query_plan(shared.schema, Unwrap(local[t].doc), local[t].options)]
    /\ pc' = [pc EXCEPT ![t] = "done"]
    /\ UNCHANGED <<shared, local, libVars, shimVars, fmtVars>>

\* the call returns (or unwinds) and the thread is free to call again
Return(t) ==
    /\ pc[t] = "done"
    /\ pc' = [pc EXCEPT ![t] = "idle"]
    /\ local' = [local EXCEPT ![t] = NoLocal]
    /\ result' = [result EXCEPT ![t] = NoResult]
    /\ UNCHANGED <<shared, libVars, shimVars, fmtVars>>

(***************************************************************************)
(* The formatter applied to a selection set of the parsed AST and to the   *)
(* reference variants standing for it.                                     *)
(***************************************************************************)
MaxItems == 2

SkipDirective ==
    [name |-> "skip", arguments |-> << <<"if", [v |-> "Variable", name |-> "a"]>> >>]
ArgumentLists ==
    {<<>>,
     << <<"id", [v |-> "Int", num |-> 1]>>,
        <<"in", [v |-> "List", items |-> <<[v |-> "Boolean", b |-> TRUE], [v |-> "Null"]>>]>> >>}
DirectiveLists == {<<>>, <<SkipDirective>>}
Aliases == {None, Some("a")}

Field(alias, name, arguments, directives, items) ==
    [kind |-> "Field", alias |-> alias, name |-> name, arguments |-> arguments,
     directives |-> directives, selection_set |-> [items |-> items]]
InlineFragment(cond, directives, items) ==
    [kind |-> "InlineFragment", type_condition |-> cond, directives |-> directives,
     selection_set |-> [items |-> items]]
FragmentSpread(name, directives) ==
    [kind |-> "FragmentSpread", fragment_name |-> name, directives |-> directives]

LeafFields ==
    {Field(al, "me", args, dirs, <<>>) :
        al \in Aliases, args \in ArgumentLists, dirs \in DirectiveLists}
Spreads == {FragmentSpread("F", dirs) : dirs \in DirectiveLists}
ChildLists ==
    {<<Field(None, "name", <<>>, <<>>, <<>>)>>,
     <<FragmentSpread("F", <<>>)>>,
     <<Field(Some("a"), "name", <<>>, <<SkipDirective>>, <<>>),
       FragmentSpread("F", <<SkipDirective>>)>>}
NestedFields == {Field(al, "me", <<>>, <<>>, ch) : al \in Aliases, ch \in ChildLists}
InlineFragments ==
    {InlineFragment(c, dirs, ch) :
        c \in {None, Some("User")}, dirs \in DirectiveLists, ch \in ChildLists}
Selections == LeafFields \cup Spreads \cup NestedFields \cup InlineFragments
PairItems ==
    {Field(None, "me", <<>>, <<>>, <<>>),
     FragmentSpread("F", <<>>),
     InlineFragment(Some("User"), <<>>, <<FragmentSpread("F", <<SkipDirective>>)>>)}
SelectionSets ==
    {[items |-> <<x>>] : x \in Selections}
    \cup {[items |-> its] : its \in UNION {[1..n -> PairItems] : n \in 2..MaxItems}}

NoSelection == [items |-> <<>>]

FmtIdle ==
    /\ sel = NoSelection
    /\ selRef = NoSelection
    /\ astText = <<>>
    /\ refText = <<>>

\* the reference variant standing for a selection: the same alias, name,
\* arguments, directives and sub-selections; a FragmentSpreadRef has a name only
RECURSIVE RefOf(_), RefsOf(_)
RefOf(x) ==
    CASE x.kind = "Field" ->
           [kind |-> "FieldRef", alias |-> x.alias, name |-> x.name,
            arguments |-> x.arguments, directives |-> x.directives,
            selection_set |-> [items |-> RefsOf(x.selection_set.items)]]
      [] x.kind = "InlineFragment" ->
           [kind |-> "InlineFragmentRef", type_condition |-> x.type_condition,
            directives |-> x.directives,
            selection_set |-> [items |-> RefsOf(x.selection_set.items)]]
      [] x.kind = "FragmentSpread" ->
           [kind |-> "FragmentSpreadRef", name |-> x.fragment_name]
RefsOf(items) == [i \in 1..Len(items) |-> RefOf(items[i])]

\* SelectionRef::Field(field) for fields, SelectionRef::Ref for the rest
FieldOrRef(x) == IF x.kind = "Field" THEN x ELSE [kind |-> "Ref", r |-> x]

RefModes == {"Ref", "Field", "Variants"}
SelectionSetRefOf(set, mode) ==
    [items |->
        CASE mode = "Ref"      -> AsRefs(set.items)
          [] mode = "Field"    -> [i \in 1..Len(set.items) |-> FieldOrRef(set.items[i])]
          [] mode = "Variants" -> RefsOf(set.items)]

\* the planner builds the reference form of the selection set
TakeRef(mode) ==
    /\ sel # NoSelection
    /\ selRef = NoSelection
    /\ selRef' = SelectionSetRefOf(sel, mode)
    /\ UNCHANGED <<sel, astText, refText, libVars, shimVars, concVars>>

\* to_string(&selection_set)
DisplayAst ==
    /\ sel # NoSelection
    /\ astText = <<>>
    /\ astText' = display_SelectionSet(sel)
    /\ UNCHANGED <<sel, selRef, refText, libVars, shimVars, concVars>>

\* to_string(&selection_set_ref)
DisplayRef ==
    /\ selRef # NoSelection
    /\ refText = <<>>
    /\ refText' = display_SelectionSetRef(selRef)
    /\ UNCHANGED <<sel, selRef, astText, libVars, shimVars, concVars>>

(***************************************************************************)
(* Specifications.                                                         *)
(***************************************************************************)
\* the host shim
Init == LibIdle /\ ShimIdle /\ ConcIdle /\ FmtIdle
Next ==
    \/ \E schema \in SchemaTexts : get_query_planner(schema)
    \/ \E h \in Addrs, query \in QueryTexts : get_query_plan(h, query)
Spec == Init /\ [][Next]_vars

\* a native caller of the library
NextPlanner ==
    \/ \E text \in SchemaTexts : New(text)
    \/ \E query \in QueryTexts, options \in OptionsSet : Plan(query, options)
    \/ Reformat
SpecPlanner == Init /\ [][NextPlanner]_vars

\* threads sharing one planner
InitConcurrent ==
    /\ LibIdle /\ ShimIdle /\ FmtIdle
    /\ shared \in {new(t).planner : t \in {SchemaBasic, SchemaAlt}}
    /\ pc = [t \in Threads |-> "idle"]
    /\ local = [t \in Threads |-> NoLocal]
    /\ result = [t \in Threads |-> NoResult]
NextConcurrent ==
    \E t \in Threads :
        \/ \E query \in ConcurrentQueries, options \in OptionsSet : Call(t, query, options)
        \/ ParseStep(t)
        \/ BuildStep(t)
        \/ Return(t)
SpecConcurrent == InitConcurrent /\ [][NextConcurrent]_vars

\* the formatter
InitFormat ==
    /\ LibIdle /\ ShimIdle /\ ConcIdle
    /\ sel \in SelectionSets
    /\ selRef = NoSelection
    /\ astText = <<>>
    /\ refText = <<>>
NextFormat ==
    \/ \E mode \in RefModes : TakeRef(mode)
    \/ DisplayAst
    \/ DisplayRef
SpecFormat == InitFormat /\ [][NextFormat]_vars

(***************************************************************************)
(* Properties.                                                             *)
(***************************************************************************)
\* the root operation of a query text that parses
RootOf(query) == Unwrap(RootOperation(parse_query(query).doc))

SameCall(a, b) ==
    /\ a.op = "plan" /\ b.op = "plan"
    /\ a.query = b.query /\ a.options = b.options

C3_PlanFailuresAreErr ==
    res.op = "plan"
    => /\ res.result.outcome \in {"Ok", "Err"}
       /\ ~parse_query(res.query).ok
          => /\ res.result.outcome = "Err"
             /\ res.result.err.kind = "FailedParsingQuery"

\* C4: QueryPlanner::new on a schema text that does not parse reports the error
\* kind InvalidSchema as an error outcome.
C4_NewFailsWithInvalidSchema ==
    (res.op = "new" /\ ~parse_schema(res.schema).ok)
    => /\ res.result.outcome = "Err"
       /\ res.result.err.kind = "InvalidSchema"

\* the plan of `query { me { name } }` when accounts owns me and name
ExpectedMe ==
    [node |-> Some([kind |-> "Fetch", serviceName |-> "accounts",
                    variableUsages |-> <<>>,
                    operation |-> <<"{", "me", "{", "name", "}", "}">>])]

PlansMeOnBasic ==
    /\ ret.op = "getQueryPlan"
    /\ ret.query = QueryMe
    /\ Len(ret.dataBefore) = 1
    /\ ret.dataBefore[1] = Stored(new(SchemaBasic).planner)

\* C5: every getQueryPlan call for `query { me { name } }` through the handle of a
\* planner built from the basic schema returns the single Fetch on accounts with
\* operation {me{name}}, and leaves SCHEMA and DATA as they were.
C5_HandleIsReusable ==
    PlansMeOnBasic
    => /\ ret.outcome = "returned"
       /\ ret.value = ExpectedMe
       /\ SCHEMA = ret.schemaBefore
       /\ DATA = ret.dataBefore

\* C5 witness: the third call in a row through the handle
C5_Witness ==
    /\ PlansMeOnBasic
    /\ ret.run >= 3
    /\ ret.value = ExpectedMe

\* C6: a Fetch.operation text parses, and formatting the parsed document gives the
\* same text back.
C6_FormatIsIdempotent ==
    reformatted # NotReformatted
    => /\ reformatted.parsed
       /\ reformatted.text = reformatted.operation

\* C7: the shim holds one schema text and one planner (stores of equal length, at
\* most 1), every call returns the same handle, and a plan call through a handle
\* plans against the schema installed last.
C7_OneSchemaOnePlanner ==
    /\ Len(SCHEMA) = Len(DATA)
    /\ Len(SCHEMA) <= 1
    /\ Cardinality(handles) <= 1
    /\ ret.op = "getQueryPlan"
       => LET now == new(SCHEMA[1])
              r == plan(now.planner, ret.query, NoOptions)
          IN  /\ now.outcome = "planner"
              /\ ret.outcome # "ub"
              /\ r.outcome = "Ok"
                 => ret.outcome = "returned" /\ ret.value = JsValue_from_serde(r.plan)

RECURSIVE HasDirectiveSpread(_)
HasDirectiveSpread(items) ==
    /\ Len(items) # 0
    /\ \/ LET x == Head(items)
          IN  IF x.kind = "FragmentSpread" THEN Len(x.directives) # 0
              ELSE HasDirectiveSpread(x.selection_set.items)
       \/ HasDirectiveSpread(Tail(items))

Displayed == astText # <<>> /\ refText # <<>>
UsesVariants == selRef = SelectionSetRefOf(sel, "Variants")

C10_PlannerMatchesSchema ==
    /\ Len(DATA) = 1
       => /\ Len(SCHEMA) = 1
          /\ new(SCHEMA[1]).outcome = "planner"
          /\ DATA[1] = Stored(new(SCHEMA[1]).planner)
    /\ (ret.op = "getQueryPlanner" /\ ret.outcome = "panic" /\ Len(ret.dataBefore) = 1)
       => SCHEMA = ret.schemaBefore /\ DATA = ret.dataBefore

=============================================================================
